---- MODULE Spec2Model ----
(***************************************************************************)
(* CloudProviderFactory of cloudbridge/providers/factory.py, together with *)
(* the constructor of EC2CloudProviderV1 (cloudbridge/providers/ec2).      *)
(*                                                                         *)
(* Python values are tagged records: None, PyStr(s), PyInt(i) and          *)
(* PyList(l).  A dotted identifier "a.b.C" is the sequence of its segments *)
(* <<"a","b","C">>, so that rsplit(".", 1) is a split at the last segment. *)
(* The result of a call is Return(value) or Raise(type, msg).              *)
(***************************************************************************)
EXTENDS Integers, Sequences, FiniteSets, TLC

\* Registries hold versions 1..MaxVersion; callers ask for -1..MaxVersion+1.
MaxVersion == 2
\* Instances a run may hand out.
MaxInstances == 2

VARIABLES
    registry,   \* what self.list_providers() evaluates to
    modules,    \* importable modules: module path -> names defined in it
    factory,    \* instance attributes of the CloudProviderFactory object
    held,       \* the list object a caller got from list_providers()
    op,         \* the last method called
    args,       \* its arguments
    outcome,    \* what it returned or raised
    loads,      \* identifiers handed to _get_provider_class by the last call
    ctorCalls,  \* constructor invocations made by the last call
    nextId      \* identity of the next instance handed to a caller

vars == <<registry, modules, factory, held, op, args, outcome, loads,
          ctorCalls, nextId>>

----------------------------------------------------------------------------
\* Python values and call outcomes

None == [t |-> "None"]
PyStr(s) == [t |-> "str", v |-> s]
PyInt(i) == [t |-> "int", v |-> i]
PyList(l) == [t |-> "list", items |-> l]

Return(x) == [kind |-> "return", value |-> x]
Raise(type, msg) == [kind |-> "raise", exc |-> [type |-> type, msg |-> msg]]

\* Truth value of a version argument in `if version:`.
Truthy(x) == x.t = "int" /\ x.v # 0

\* class ProviderList
EC2 == "ec2"
OPENSTACK == "openstack"
AZURE == "azure"

----------------------------------------------------------------------------
\* The catalog

\* Mutant of ShippedCatalog: the EC2 entry is pasted a second time.
ShippedCatalogPastedTwice ==
    << [name |-> OPENSTACK,
        implementations |->
            << [class |-> <<"cloudbridge", "providers", "openstack",
                            "OpenStackCloudProviderV1">>,
                version |-> 1] >>],
       [name |-> EC2,
        implementations |->
            << [class |-> <<"cloudbridge", "providers", "ec2",
                            "EC2CloudProviderV1">>,
                version |-> 1],
               [class |-> <<"cloudbridge", "providers", "ec2",
                            "EC2CloudProviderV1">>,
                version |-> 1] >>] >>

\* The literal returned by list_providers.
ShippedCatalog ==
    << [name |-> OPENSTACK,
        implementations |->
            << [class |-> <<"cloudbridge", "providers", "openstack",
                            "OpenStackCloudProviderV1">>,
                version |-> 1] >>],
       [name |-> EC2,
        implementations |->
            << [class |-> <<"cloudbridge", "providers", "ec2",
                            "EC2CloudProviderV1">>,
                version |-> 1] >>] >>

\* Mutant of list_providers: one list object is shared with the callers
\* instead of a new one being built by each call.
list_providers_shared == IF held # <<>> THEN held ELSE registry

list_providers == registry

----------------------------------------------------------------------------
\* find_provider_impl

\* Mutant of MatchVersion: the comparison is >= instead of ==.
MatchVersionAtLeast(impls, version) ==
    SelectSeq(impls, LAMBDA item : item.version >= version.v)

\* [item for item in implementations if item["version"] == version]
MatchVersion(impls, version) ==
    SelectSeq(impls, LAMBDA item : item.version = version.v)

\* Insertion of one item into a list sorted by version, after its equals
\* (sorted() is stable).
RECURSIVE InsertSorted(_, _)
InsertSorted(item, s) ==
    IF s = <<>> THEN <<item>>
    ELSE IF item.version < Head(s).version THEN <<item>> \o s
    ELSE <<Head(s)>> \o InsertSorted(item, Tail(s))

\* Mutant of sorted: the list is left in the order it is listed in.
sortedAsListed(impls) == impls

\* sorted(implementations, key=lambda x: x["version"])
RECURSIVE sorted(_)
sorted(impls) ==
    IF impls = <<>> THEN <<>>
    ELSE InsertSorted(impls[Len(impls)], sorted(SubSeq(impls, 1, Len(impls) - 1)))

\* The branch taken for the first descriptor whose name matches.
ResolveIn(provider, version) ==
    IF Truthy(version)
    THEN LET match == MatchVersion(provider.implementations, version)
         IN  IF match # <<>> THEN Return(PyStr(match[1].class))
             ELSE Return(None)
    ELSE LET s == sorted(provider.implementations)
         IN  IF s = <<>>
             THEN Raise("IndexError", <<"list index out of range">>)
             ELSE Return(PyStr(s[Len(s)].class))

\* Mutant of FindIn: the name test is lost, the first descriptor is taken.
FindInFirst(providers, name, version) ==
    IF providers = <<>> THEN Return(None)
    ELSE ResolveIn(Head(providers), version)

\* The loop over the descriptors.
RECURSIVE FindIn(_, _, _)
FindIn(providers, name, version) ==
    IF providers = <<>> THEN Return(None)
    ELSE IF Head(providers).name = name
         THEN ResolveIn(Head(providers), version)
         ELSE FindIn(Tail(providers), name, version)

find_provider_impl(name, version) == FindIn(list_providers, name, version)

----------------------------------------------------------------------------
\* _get_provider_class

Class(module_name, class_name) ==
    [t |-> "class", module |-> module_name, name |-> class_name]

\* Mutant of get_provider_class: a failed import or lookup is reported as
\* the provider not being found.
get_provider_class_not_found(impl) ==
    IF \/ Len(impl) < 2
       \/ SubSeq(impl, 1, Len(impl) - 1) \notin DOMAIN modules
       \/ impl[Len(impl)] \notin modules[SubSeq(impl, 1, Len(impl) - 1)]
    THEN Raise("NotImplementedError", <<"provider could not be found">>)
    ELSE Return(Class(SubSeq(impl, 1, Len(impl) - 1), impl[Len(impl)]))

\* impl.rsplit(".", 1), unpacked into two names; then import_module and
\* getattr against the modules the runtime can import.
get_provider_class(impl) ==
    IF Len(impl) < 2
    THEN Raise("ValueError", <<"need more than 1 value to unpack">>)
    ELSE LET module_name == SubSeq(impl, 1, Len(impl) - 1)
             class_name  == impl[Len(impl)]
         IN  IF module_name \notin DOMAIN modules
             THEN Raise("ImportError", <<"No module named ">> \o module_name)
             ELSE IF class_name \notin modules[module_name]
             THEN Raise("AttributeError",
                        <<"'module' object has no attribute ", class_name>>)
             ELSE Return(Class(module_name, class_name))

----------------------------------------------------------------------------
\* Constructors

HasAttr(config, a) == a \in DOMAIN config.attrs

\* config.get(key, default) of a Bunch
Get(config, key, default) ==
    IF HasAttr(config, key) THEN config.attrs[key] ELSE default

AttrError(a) == Raise("AttributeError", <<"object has no attribute ", a>>)

\* The optional fields read from a Bunch.
BunchFields(config) ==
    [is_secure       |-> Get(config, "is_secure", TRUE),
     region_name     |-> Get(config, "region_name", "us-east-1"),
     region_endpoint |-> Get(config, "region_endpoint",
                             "ec2.us-east-1.amazonaws.com"),
     ec2_port        |-> Get(config, "ec2_port", ""),
     ec2_conn_path   |-> Get(config, "ec2_conn_path", "/")]

\* EC2CloudProviderV1.__init__; ext is what boto.connect_ec2 does.
EC2Init(cls, config, ext, oid) ==
    IF ~HasAttr(config, "access_key") THEN AttrError("access_key")
    ELSE IF ~HasAttr(config, "secret_key") THEN AttrError("secret_key")
    ELSE IF config.type = "Bunch"
    THEN IF ext = "raise"
         THEN Raise("BotoError", <<"connect_ec2 failed">>)
         ELSE Return([t |-> "instance", cls |-> cls, oid |-> oid,
                      config |-> config,
                      a_key |-> config.attrs["access_key"],
                      s_key |-> config.attrs["secret_key"],
                      cloud_type |-> "ec2",
                      optional |-> BunchFields(config)])
    \* hasattr(config.is_secure): the attribute is read first, then hasattr
    \* is called with one argument
    ELSE IF ~HasAttr(config, "is_secure") THEN AttrError("is_secure")
    ELSE Raise("TypeError", <<"hasattr expected 2 arguments, got 1">>)

\* A provider class whose source is not part of the factory: it succeeds
\* or raises as ext says.
OtherInit(cls, config, ext, oid) ==
    IF ext = "raise"
    THEN Raise("ProviderError", <<"constructor failed">>)
    ELSE Return([t |-> "instance", cls |-> cls, oid |-> oid,
                 config |-> config])

EC2Class ==
    Class(<<"cloudbridge", "providers", "ec2">>, "EC2CloudProviderV1")

\* provider_class(config)
Construct(cls, config, ext, oid) ==
    IF cls = EC2Class THEN EC2Init(cls, config, ext, oid)
    ELSE OtherInit(cls, config, ext, oid)

----------------------------------------------------------------------------
\* create_provider and get_all_provider_classes

\* 'A provider by name {0} implementing interface v1 could not be
\* found'.format(name); the version digit of the literal is a part of its own.
NotFoundMsg(name) ==
    <<"A provider by name ", name, " implementing interface v", "1",
      " could not be found">>

\* Mutant of create_provider: an error of the constructor is replaced by
\* the factory's own.
create_provider_wrapping(name, config, version, ext, oid) ==
    LET impl == find_provider_impl(name, version)
        absent == [outcome |-> Raise("NotImplementedError",
                                     <<"A provider by name ", name,
                                       " could not be created">>),
                   loads |-> <<>>, ctorCalls |-> <<>>, factory |-> factory]
    IN  IF impl.kind = "raise" \/ impl.value = None THEN absent
        ELSE LET provider_class == get_provider_class(impl.value.v)
                 made == Construct(provider_class.value, config, ext, oid)
             IN  IF provider_class.kind = "raise"
                 THEN [outcome |-> provider_class,
                       loads |-> <<impl.value.v>>, ctorCalls |-> <<>>,
                       factory |-> factory]
                 ELSE [outcome |-> IF made.kind = "raise" THEN absent.outcome
                                   ELSE made,
                       loads |-> <<impl.value.v>>,
                       ctorCalls |-> <<[cls |-> provider_class.value,
                                        config |-> config,
                                        result |-> made]>>,
                       factory |-> factory]

\* What one call does: its outcome, the identifiers it loaded, the
\* constructor invocations it made and the factory's attributes after it.
create_provider(name, config, version, ext, oid) ==
    LET impl == find_provider_impl(name, version)
    IN  IF impl.kind = "raise"
        THEN [outcome |-> impl, loads |-> <<>>, ctorCalls |-> <<>>,
              factory |-> factory]
        ELSE IF impl.value = None
        THEN [outcome |-> Raise("NotImplementedError", NotFoundMsg(name)),
              loads |-> <<>>, ctorCalls |-> <<>>, factory |-> factory]
        ELSE LET provider_class == get_provider_class(impl.value.v)
             IN  IF provider_class.kind = "raise"
                 THEN [outcome |-> provider_class,
                       loads |-> <<impl.value.v>>, ctorCalls |-> <<>>,
                       factory |-> factory]
                 ELSE LET made == Construct(provider_class.value, config,
                                            ext, oid)
                      IN  [outcome |-> made,
                           loads |-> <<impl.value.v>>,
                           ctorCalls |-> <<[cls |-> provider_class.value,
                                            config |-> config,
                                            result |-> made]>>,
                           factory |-> factory]

\* The identifiers of the catalog, descriptor by descriptor.
RECURSIVE AllImpls(_)
AllImpls(providers) ==
    IF providers = <<>> THEN <<>>
    ELSE [i \in 1..Len(Head(providers).implementations) |->
             Head(providers).implementations[i].class]
         \o AllImpls(Tail(providers))

\* Mutant of LoadAll: an implementation that fails to load is skipped.
RECURSIVE LoadAllSkipping(_, _, _)
LoadAllSkipping(impls, acc, tried) ==
    IF impls = <<>>
    THEN [outcome |-> Return(PyList(acc)), loads |-> tried]
    ELSE LET c == get_provider_class(Head(impls))
         IN  LoadAllSkipping(Tail(impls),
                             IF c.kind = "raise" THEN acc
                             ELSE Append(acc, c.value),
                             Append(tried, Head(impls)))

\* The nested loops, appending to all_providers (acc) until a load raises.
RECURSIVE LoadAll(_, _, _)
LoadAll(impls, acc, tried) ==
    IF impls = <<>>
    THEN [outcome |-> Return(PyList(acc)), loads |-> tried]
    ELSE LET c == get_provider_class(Head(impls))
         IN  IF c.kind = "raise"
             THEN [outcome |-> c, loads |-> Append(tried, Head(impls))]
             ELSE LoadAll(Tail(impls), Append(acc, c.value),
                          Append(tried, Head(impls)))

get_all_provider_classes == LoadAll(AllImpls(list_providers), <<>>, <<>>)

----------------------------------------------------------------------------
\* Inputs

Names == {EC2, OPENSTACK, AZURE}

VersionArgs == {None} \cup {PyInt(v) : v \in -1..(MaxVersion + 1)}

Bunch(attrs) == [type |-> "Bunch", attrs |-> attrs]
Object(attrs) == [type |-> "object", attrs |-> attrs]

Configs ==
    { Bunch([access_key |-> "AK", secret_key |-> "SK",
             region_name |-> "eu-west-1"]),
      Bunch([secret_key |-> "SK"]),
      Object([access_key |-> "AK", secret_key |-> "SK",
              is_secure |-> FALSE]) }

Exts == {"ok", "raise"}

NoArgs == [name |-> "", version |-> None, config |-> None]

\* Registries other than the shipped one: an EC2 descriptor listing any
\* distinct versions of 1..MaxVersion in any order, alone or after the
\* shipped OpenStack descriptor.
VersionLists ==
    { vs \in UNION { [1..n -> 1..MaxVersion] : n \in 1..MaxVersion } :
        \A i, j \in DOMAIN vs : vs[i] = vs[j] => i = j }

ClassOf(name, v) ==
    <<"cloudbridge", "providers", name,
      (IF name = EC2 THEN "EC2CloudProviderV" ELSE "OpenStackCloudProviderV")
          \o ToString(v)>>

Descriptor(name, vs) ==
    [name |-> name,
     implementations |->
        [i \in 1..Len(vs) |-> [class |-> ClassOf(name, vs[i]),
                               version |-> vs[i]]]]

Catalogs ==
    { <<Descriptor(EC2, vs)>> : vs \in VersionLists }
    \cup { <<Descriptor(OPENSTACK, <<1>>), Descriptor(EC2, vs)>> :
              vs \in VersionLists }

ModulePath(impl) == SubSeq(impl, 1, Len(impl) - 1)

ImplSet(reg) == { AllImpls(reg)[i] : i \in 1..Len(AllImpls(reg)) }

\* Every module of the registry importable, with every registered class.
FullModules(reg) ==
    [m \in { ModulePath(c) : c \in ImplSet(reg) } |->
        { c[Len(c)] : c \in { d \in ImplSet(reg) : ModulePath(d) = m } }]

\* Each module of the registry is missing, present without its classes, or
\* present with them.
Environments(reg) ==
    LET full == FullModules(reg)
    IN  { [m \in de[1] |-> IF m \in de[2] THEN {} ELSE full[m]] :
            de \in { x \in (SUBSET DOMAIN full) \X (SUBSET DOMAIN full) :
                       x[2] \subseteq x[1] } }

----------------------------------------------------------------------------
\* Behaviour

Start ==
    /\ factory = <<>>
    /\ held = <<>>
    /\ op = "init"
    /\ args = NoArgs
    /\ outcome = Return(None)
    /\ loads = <<>>
    /\ ctorCalls = <<>>
    /\ nextId = 0

Init ==
    /\ registry = ShippedCatalog
    /\ modules \in Environments(registry)
    /\ Start

InitReg ==
    /\ registry \in Catalogs
    /\ modules = FullModules(registry)
    /\ Start

ListProviders ==
    /\ op' = "list_providers"
    /\ args' = NoArgs
    /\ outcome' = Return(PyList(list_providers))
    /\ held' = list_providers
    /\ loads' = <<>>
    /\ ctorCalls' = <<>>
    /\ UNCHANGED <<registry, modules, factory, nextId>>

\* The caller changes the list object it was given: held.pop(), or
\* held[0]["name"] = "azure".
MutateHeld ==
    /\ held # <<>>
    /\ \/ held' = SubSeq(held, 1, Len(held) - 1)
       \/ /\ held[1].name # AZURE
          /\ held' = [held EXCEPT ![1].name = AZURE]
    /\ op' = "caller"
    /\ args' = NoArgs
    /\ outcome' = Return(None)
    /\ loads' = <<>>
    /\ ctorCalls' = <<>>
    /\ UNCHANGED <<registry, modules, factory, nextId>>

FindProviderImpl ==
    \E name \in Names, version \in VersionArgs :
      \E r \in {find_provider_impl(name, version)} :
        /\ op' = "find_provider_impl"
        /\ args' = [name |-> name, version |-> version, config |-> None]
        /\ outcome' = r
        /\ loads' = <<>>
        /\ ctorCalls' = <<>>
        /\ UNCHANGED <<registry, modules, factory, held, nextId>>

CreateProvider ==
    \E name \in Names, config \in Configs, version \in VersionArgs,
       ext \in Exts :
        /\ nextId < MaxInstances
        /\ \E r \in {create_provider(name, config, version, ext, nextId)} :
            /\ op' = "create_provider"
            /\ args' = [name |-> name, version |-> version,
                        config |-> config]
            /\ outcome' = r.outcome
            /\ loads' = r.loads
            /\ ctorCalls' = r.ctorCalls
            /\ factory' = r.factory
            /\ nextId' = IF r.outcome.kind = "return" THEN nextId + 1
                         ELSE nextId
            /\ UNCHANGED <<registry, modules, held>>

GetAllProviderClasses ==
    \E r \in {get_all_provider_classes} :
        /\ op' = "get_all_provider_classes"
        /\ args' = NoArgs
        /\ outcome' = r.outcome
        /\ loads' = r.loads
        /\ ctorCalls' = <<>>
        /\ UNCHANGED <<registry, modules, factory, held, nextId>>

Next ==
    \/ ListProviders
    \/ MutateHeld
    \/ FindProviderImpl
    \/ CreateProvider
    \/ GetAllProviderClasses

Spec == Init /\ [][Next]_vars

SpecReg == InitReg /\ [][Next]_vars

----------------------------------------------------------------------------
\* Vocabulary of the properties

RegisteredNames == { registry[i].name : i \in DOMAIN registry }

\* The entries registered under a name.
EntriesOf(name) ==
    UNION { { registry[i].implementations[j] :
                j \in DOMAIN registry[i].implementations } :
            i \in { k \in DOMAIN registry : registry[k].name = name } }

VersionsOf(name) == { e.version : e \in EntriesOf(name) }

\* The (name, version) pairs under which an identifier is registered.
PairsOf(class) ==
    UNION { { <<registry[i].name, registry[i].implementations[j].version>> :
                j \in { k \in DOMAIN registry[i].implementations :
                          registry[i].implementations[k].class = class } } :
            i \in DOMAIN registry }

VersionGiven == args.version # None

\* The last call was find_provider_impl.
Found == op = "find_provider_impl"

\* The last call was create_provider.
Created == op = "create_provider"

\* What find_provider_impl gives for the arguments of the last call.
Resolved == find_provider_impl(args.name, args.version)

\* C1: asked for a registered (name, version) pair, find_provider_impl
\* returns the identifier registered for that pair, which is registered
\* under no other name and no other version.
C1_RegisteredPairResolves ==
    (Found /\ VersionGiven /\ args.version.v \in VersionsOf(args.name))
    => /\ outcome.kind = "return"
       /\ outcome.value.t = "str"
       /\ \E e \in EntriesOf(args.name) :
             e.version = args.version.v /\ e.class = outcome.value.v
       /\ PairsOf(outcome.value.v) = {<<args.name, args.version.v>>}

\* C1 witness: the pair asked for is listed after another version of the
\* same name, in a registry that holds a second name.
C1_Witness ==
    /\ Found /\ VersionGiven
    /\ Len(registry) = 2
    /\ args.name = registry[2].name
    /\ Len(registry[2].implementations) = 2
    /\ registry[2].implementations[2].version = args.version.v
    /\ registry[2].implementations[1].version > args.version.v
    /\ outcome = Return(PyStr(registry[2].implementations[2].class))

\* C2: with the version omitted, find_provider_impl returns the identifier
\* of the entry whose version is the greatest of that name's entries.
C2_OmittedVersionIsLatest ==
    (Found /\ args.version = None /\ args.name \in RegisteredNames)
    => \E e \in EntriesOf(args.name) :
          /\ \A f \in EntriesOf(args.name) : f.version <= e.version
          /\ outcome = Return(PyStr(e.class))

\* C2 witness: the greatest version is listed first, not last.
C2_Witness ==
    /\ Found /\ args.version = None
    /\ \E i \in DOMAIN registry :
          /\ registry[i].name = args.name
          /\ Len(registry[i].implementations) = 2
          /\ registry[i].implementations[1].version
                > registry[i].implementations[2].version
          /\ outcome = Return(PyStr(registry[i].implementations[1].class))

\* C3: asked for a registered name and an integer version not registered
\* under it (0 and negative integers included), find_provider_impl
\* returns None.
C3_UnregisteredVersionIsAbsent ==
    (/\ Found /\ VersionGiven
     /\ args.name \in RegisteredNames
     /\ args.version.v \notin VersionsOf(args.name))
    => outcome = Return(None)

\* C4: asked for a name no descriptor has, find_provider_impl returns None
\* as a normal value, whatever the version, given or omitted.
C4_UnknownNameIsAbsent ==
    (Found /\ args.name \notin RegisteredNames) => outcome = Return(None)

\* C4 witness: the unknown name is asked with a version that another name
\* registers, and the registry is not empty.
C4_Witness ==
    /\ Found /\ VersionGiven
    /\ args.name \notin RegisteredNames
    /\ \E n \in RegisteredNames : args.version.v \in VersionsOf(n)
    /\ outcome = Return(None)

\* The identifier the last create_provider call resolved its arguments to.
ResolvedImpl == Resolved.value.v

\* The last create_provider call resolved its arguments to an identifier.
CreatedResolved ==
    Created /\ Resolved.kind = "return" /\ Resolved.value # None

\* Parts of an error message.
Mentions(msg, part) == \E i \in DOMAIN msg : msg[i] = part

\* C5: when find_provider_impl is absent for its name and version,
\* create_provider fails with the not-found error, which names the name
\* asked for and, when one was given, the version asked for; nothing is
\* loaded and no constructor runs.
C5_AbsentFailsNamingNameAndVersion ==
    (Created /\ Resolved = Return(None))
    => /\ outcome.kind = "raise"
       /\ outcome.exc.type = "NotImplementedError"
       /\ Mentions(outcome.exc.msg, args.name)
       /\ VersionGiven => Mentions(outcome.exc.msg, ToString(args.version.v))
       /\ loads = <<>>
       /\ ctorCalls = <<>>

\* C6: when the identifier create_provider resolved cannot be loaded, the
\* call fails with the loader's error, which is not the not-found error,
\* and no constructor runs.
C6_LoadFailureIsDistinct ==
    (CreatedResolved /\ get_provider_class(ResolvedImpl).kind = "raise")
    => /\ outcome.kind = "raise"
       /\ outcome.exc.type \in {"ImportError", "AttributeError"}
       /\ outcome.exc.type # "NotImplementedError"
       /\ loads = <<ResolvedImpl>>
       /\ ctorCalls = <<>>

\* C6 witness: a registered identifier whose module imports but lacks the
\* class.
C6_Witness ==
    /\ CreatedResolved
    /\ ModulePath(ResolvedImpl) \in DOMAIN modules
    /\ outcome.kind = "raise"
    /\ outcome.exc.type = "AttributeError"
    /\ ctorCalls = <<>>

\* C7: when create_provider resolves and loads an implementation, its
\* constructor is invoked once, with the config the caller passed, and
\* what the constructor returns or raises is what the caller gets.
C7_ConstructorOutcomePassesThrough ==
    (CreatedResolved /\ get_provider_class(ResolvedImpl).kind = "return")
    => /\ Len(ctorCalls) = 1
       /\ ctorCalls[1].cls = get_provider_class(ResolvedImpl).value
       /\ ctorCalls[1].config = args.config
       /\ outcome = ctorCalls[1].result
       /\ \E ext \in Exts, oid \in 0..MaxInstances :
             outcome = Construct(ctorCalls[1].cls, args.config, ext, oid)
       /\ outcome.kind = "return" => outcome.value.config = args.config

\* C7 witness: the EC2 constructor raises on the config it was given (an
\* object that is no Bunch), and that TypeError is the call's outcome.
C7_Witness ==
    /\ CreatedResolved
    /\ Len(ctorCalls) = 1
    /\ ctorCalls[1].cls = EC2Class
    /\ args.config.type = "object"
    /\ outcome.kind = "raise"
    /\ outcome.exc.type = "TypeError"

\* The number of entries of a catalog, descriptor by descriptor.
RECURSIVE EntryCount(_)
EntryCount(providers) ==
    IF providers = <<>> THEN 0
    ELSE Len(Head(providers).implementations) + EntryCount(Tail(providers))

AllLoadable ==
    \A c \in ImplSet(registry) : get_provider_class(c).kind = "return"

\* C8: get_all_provider_classes returns the loaded type of every entry, in
\* catalog order, when all of them load, and fails as a whole, returning
\* no list, when one of them does not.
C8_AllOrNothing ==
    (op = "get_all_provider_classes")
    => IF AllLoadable
       THEN /\ outcome.kind = "return"
            /\ Len(outcome.value.items) = EntryCount(registry)
            /\ \A i \in 1..Len(outcome.value.items) :
                  outcome.value.items[i]
                      = get_provider_class(AllImpls(registry)[i]).value
       ELSE /\ outcome.kind = "raise"
            /\ outcome.exc.type \in {"ImportError", "AttributeError"}

\* C8 witness: the first entry loads and the second does not.
C8_Witness ==
    /\ op = "get_all_provider_classes"
    /\ Len(loads) = 2
    /\ get_provider_class(loads[1]).kind = "return"
    /\ outcome.kind = "raise"

\* C9: list_providers returns the two shipped descriptors, OpenStack then
\* EC2, each time it is called; names are unique, and within a descriptor
\* the versions are positive and unique, as many as there are entries.
C9_ListIsTheShippedCatalog ==
    (op = "list_providers")
    => /\ outcome.kind = "return"
       /\ Len(outcome.value.items) = 2
       /\ [i \in 1..2 |-> outcome.value.items[i].name] = <<OPENSTACK, EC2>>
       /\ \A i, j \in 1..2 :
             outcome.value.items[i].name = outcome.value.items[j].name => i = j
       /\ \A i \in 1..2 :
             LET impls == outcome.value.items[i].implementations
             IN  /\ \A j \in DOMAIN impls : impls[j].version > 0
                 /\ \A j, k \in DOMAIN impls :
                       impls[j].version = impls[k].version => j = k
                 /\ Len(impls)
                       = Cardinality({ impls[j].version : j \in DOMAIN impls })
                 /\ [j \in DOMAIN impls |-> impls[j].version] = <<1>>

\* C9 witness: list_providers is called after an instance was created, and
\* returns the shipped descriptors.
C9_Witness ==
    /\ op = "list_providers"
    /\ nextId > 0
    /\ outcome.value = PyList(ShippedCatalog)

\* C10: no call and no change a caller makes to a list it was given
\* changes the catalog, the result of find_provider_impl for any
\* arguments, or the factory's attributes, which stay empty; an instance
\* create_provider returns is one no earlier call returned.
C10_NoStateBetweenCalls ==
    [][/\ list_providers' = list_providers
       /\ \A n \in Names, v \in VersionArgs :
             find_provider_impl(n, v)' = find_provider_impl(n, v)
       /\ factory = <<>> /\ factory' = <<>>
       /\ (op' = "create_provider" /\ outcome'.kind = "return")
          => /\ outcome'.value.oid \notin 0..(nextId - 1)
             /\ outcome'.value.oid \in 0..(nextId' - 1)]_vars

\* C10 witness: a second instance is handed out while a caller holds a
\* list it has changed.
C10_Witness ==
    /\ op = "create_provider"
    /\ outcome.kind = "return"
    /\ outcome.value.oid = 1
    /\ nextId = 2
    /\ held # <<>>
    /\ held # registry

====
